---- MODULE Spec2Model ----
(***************************************************************************)
(* termbox-tetris: the shared board / active piece / GAME_STATE of         *)
(* src/tetris.c and src/include/tetris.h, and the two threads that work on *)
(* them: the main thread (initialize, then the gravity loop of main) and   *)
(* the input thread (event_handler_pthread_routine).                       *)
(*                                                                         *)
(* Granularity.  One step per mutex acquisition (it can block), one step   *)
(* per critical section together with the unlocks that end it, and one     *)
(* step per read or write of the unprotected global GAME_STATE.            *)
(*                                                                         *)
(* Control.  pc[t] is the place thread t is at, stack[t] the list of       *)
(* places it continues at when the function it is in returns (head         *)
(* first).  A call in tail position pushes nothing.                        *)
(*                                                                         *)
(* C arrays are 0-based, TLA+ sequences 1-based: blocks[i+1] here is       *)
(* blocks[i] there.  board[x][y] is indexed as in the source.              *)
(***************************************************************************)
EXTENDS Integers, Sequences, FiniteSets, TLC

\* ------------------------------------------------------------------ bounds
\* The board of the source is 10 x 20; the model runs on a smaller one.
BOARD_WIDTH == 7
BOARD_HEIGHT == 3
\* How many events tb_poll_event delivers, how many times the gravity loop
\* finds PLAY, and how many pieces create_new_active_piece makes.
MaxEvents == 3
MaxTicks == 2
MaxSpawns == 2

\* --------------------------------------------------------------- constants
Threads == {"main", "input"}
Cols == 0 .. (BOARD_WIDTH - 1)
Rows == 0 .. (BOARD_HEIGHT - 1)

\* termbox colours.  TB_DEFAULT is the value of zero-initialised storage;
\* TB_BLACK is a different value.
PieceColors == <<"TB_CYAN", "TB_YELLOW", "TB_BLUE", "TB_RED", "TB_GREEN",
                 "TB_MAGENTA", "TB_WHITE">>

B(x, y) == [x |-> x, y |-> y]

I_BLOCK_SINGLETON ==
  [color |-> "TB_CYAN", blocks |-> <<B(4, 0), B(3, 0), B(5, 0), B(6, 0)>>]
L_BLOCK_SINGLETON ==
  [color |-> "TB_YELLOW", blocks |-> <<B(4, 0), B(5, 0), B(3, 0), B(3, 1)>>]
J_BLOCK_SINGLETON ==
  [color |-> "TB_BLUE", blocks |-> <<B(4, 0), B(3, 0), B(5, 0), B(5, 1)>>]
O_BLOCK_SINGLETON ==
  [color |-> "TB_RED", blocks |-> <<B(4, 0), B(4, 1), B(5, 0), B(5, 1)>>]
S_BLOCK_SINGLETON ==
  [color |-> "TB_GREEN", blocks |-> <<B(4, 0), B(5, 0), B(3, 1), B(4, 1)>>]
Z_BLOCK_SINGLETON ==
  [color |-> "TB_MAGENTA", blocks |-> <<B(4, 0), B(3, 0), B(4, 1), B(5, 1)>>]
T_BLOCK_SINGLETON ==
  [color |-> "TB_WHITE", blocks |-> <<B(4, 0), B(5, 0), B(3, 0), B(4, 1)>>]

BLOCK_TYPE_NAMES ==
  <<I_BLOCK_SINGLETON, L_BLOCK_SINGLETON, J_BLOCK_SINGLETON, O_BLOCK_SINGLETON,
    S_BLOCK_SINGLETON, Z_BLOCK_SINGLETON, T_BLOCK_SINGLETON>>

\* volatile piece_t active_piece = {0};
ZeroPiece ==
  [color |-> "TB_DEFAULT", blocks |-> <<B(0, 0), B(0, 0), B(0, 0), B(0, 0)>>]

\* the zero-initialised global board
ZeroBoard == [x \in Cols |-> [y \in Rows |-> "TB_DEFAULT"]]

\* what setup_new_game leaves in the board
BlackBoard == [x \in Cols |-> [y \in Rows |-> "TB_BLACK"]]

\* ------------------------------------------------------- pure computations
\* The value the expression board[x][y] reads.  The array is one block of
\* BOARD_WIDTH * BOARD_HEIGHT cells, so an index pair outside the ranges
\* reads the cell at the flattened offset when that is inside the block and
\* memory that is not the board ("OUTSIDE", of unknown value) otherwise.
BoardRead(b, x, y) ==
  LET off == x * BOARD_HEIGHT + y
  IN  IF off >= 0 /\ off < BOARD_WIDTH * BOARD_HEIGHT
      THEN b[off \div BOARD_HEIGHT][off % BOARD_HEIGHT]
      ELSE "OUTSIDE"

\* new_x, new_y of move_active_piece for one block
MoveTarget(blk, dir) ==
  CASE dir = "LEFT"  -> B(blk.x - 1, blk.y)
    [] dir = "RIGHT" -> B(blk.x + 1, blk.y)
    [] dir = "DOWN"  -> B(blk.x, blk.y + 1)

\* move_active_piece with the floor test off by one (> for >=)
MoveBlockRejected_FloorOffByOne(b, blk, dir) ==
  LET n == MoveTarget(blk, dir)
  IN  CASE dir = "LEFT" ->
             n.x < 0 \/ (n.y >= 0 /\ BoardRead(b, n.x, n.y) # "TB_BLACK")
        [] dir = "RIGHT" ->
             n.x >= BOARD_WIDTH \/ (n.y >= 0 /\ BoardRead(b, n.x, n.y) # "TB_BLACK")
        [] dir = "DOWN" ->
             n.y > BOARD_HEIGHT \/ (n.y >= 0 /\ BoardRead(b, n.x, n.y) # "TB_BLACK")

\* the guard clause of move_active_piece for one block
MoveBlockRejected(b, blk, dir) ==
  LET n == MoveTarget(blk, dir)
  IN  CASE dir = "LEFT" ->
             n.x < 0 \/ (n.y >= 0 /\ BoardRead(b, n.x, n.y) # "TB_BLACK")
        [] dir = "RIGHT" ->
             n.x >= BOARD_WIDTH \/ (n.y >= 0 /\ BoardRead(b, n.x, n.y) # "TB_BLACK")
        [] dir = "DOWN" ->
             n.y >= BOARD_HEIGHT \/ (n.y >= 0 /\ BoardRead(b, n.x, n.y) # "TB_BLACK")

\* the checking loop of move_active_piece leaves at the first rejected block
MoveRejected(b, p, dir) ==
  \E i \in 1 .. 4 : MoveBlockRejected(b, p.blocks[i], dir)

\* the piece after "All guard clauses passed: move to new positions"
MovedPiece(p, dir) ==
  [p EXCEPT !.blocks = [i \in 1 .. 4 |-> MoveTarget(p.blocks[i], dir)]]

\* rotate_active_piece with rel_y written for rel_x in the new y
RotateTargets_RelYTwice(p) ==
  LET center == p.blocks[1]
  IN  IF p.color = "TB_CYAN"
      THEN IF center.y = p.blocks[2].y
           THEN <<B(center.x, center.y - 1), B(center.x, center.y + 1),
                  B(center.x, center.y + 2)>>
           ELSE <<B(center.x - 1, center.y), B(center.x + 1, center.y),
                  B(center.x + 2, center.y)>>
      ELSE [i \in 1 .. 3 |->
              LET rel_y == p.blocks[i + 1].y - center.y
              IN  B(center.x - rel_y, center.y + rel_y)]

\* new_blocks[0..2] of rotate_active_piece (never asked for the O piece)
RotateTargets(p) ==
  LET center == p.blocks[1]
  IN  IF p.color = "TB_CYAN"
      THEN IF center.y = p.blocks[2].y
           THEN <<B(center.x, center.y - 1), B(center.x, center.y + 1),
                  B(center.x, center.y + 2)>>
           ELSE <<B(center.x - 1, center.y), B(center.x + 1, center.y),
                  B(center.x + 2, center.y)>>
      ELSE [i \in 1 .. 3 |->
              LET rel_x == p.blocks[i + 1].x - center.x
                  rel_y == p.blocks[i + 1].y - center.y
              IN  B(center.x - rel_y, center.y + rel_x)]

\* the guard clause of rotate_active_piece for one candidate: the occupancy
\* test comes first, whatever x is
RotateBlockRejected(b, n) ==
  \/ (n.y >= 0 /\ BoardRead(b, n.x, n.y) # "TB_BLACK")
  \/ n.y >= BOARD_HEIGHT
  \/ n.x < 0
  \/ n.x >= BOARD_WIDTH

\* rotate_active_piece with the guard loop one candidate short (i < 2)
RotateRejected_LoopShort(b, p) ==
  \E i \in 1 .. 2 : RotateBlockRejected(b, RotateTargets(p)[i])

\* the guard loop of rotate_active_piece leaves at the first rejected candidate
RotateRejected(b, p) ==
  \E i \in 1 .. 3 : RotateBlockRejected(b, RotateTargets(p)[i])

RotatedPiece(p) ==
  [p EXCEPT !.blocks = <<p.blocks[1]>> \o RotateTargets(p)]

\* the scan "for col ... if board[col][y] == TB_BLACK break; else if
\* col == BOARD_WIDTH - 1 ..." marks the row when no column is black
RowFull(b, y) == \A col \in Cols : b[col][y] # "TB_BLACK"

\* the first loop of settle_active_piece from block i on: stops at the first
\* block above the board, with the earlier blocks already written
RECURSIVE SettleWrite(_, _, _, _)
SettleWrite(b, p, i, lines) ==
  IF i > 4 THEN [game_over |-> FALSE, board |-> b, lines |-> lines]
  ELSE LET blk == p.blocks[i]
       IN  IF blk.y < 0
           THEN [game_over |-> TRUE, board |-> b, lines |-> lines]
           ELSE LET b2 == [b EXCEPT ![blk.x][blk.y] = p.color]
                IN  SettleWrite(b2, p, i + 1,
                      IF RowFull(b2, blk.y)
                      THEN [lines EXCEPT ![i] = blk.y] ELSE lines)

\* "for (row = line; row > 0; row--) board[col][row] = board[col][row - 1]":
\* rows 1..line take the row above, row 0 is not written
ShiftDown(b, line) ==
  [x \in Cols |-> [y \in Rows |->
     IF y >= 1 /\ y <= line THEN b[x][y - 1] ELSE b[x][y]]]

\* the adjustment of the lines not yet removed after removing lines[i]
AdjustLines(lines, i) ==
  [j \in 1 .. 4 |->
     IF j > i /\ lines[j] # -1 /\ lines[j] < lines[i]
     THEN lines[j] + 1 ELSE lines[j]]

\* the removal loop of settle_active_piece from entry i on
RECURSIVE ClearLines(_, _, _)
ClearLines(b, lines, i) ==
  IF i > 4 THEN b
  ELSE IF lines[i] = -1 THEN ClearLines(b, lines, i + 1)
  ELSE ClearLines(ShiftDown(b, lines[i]), AdjustLines(lines, i), i + 1)

NoLines == <<-1, -1, -1, -1>>

\* settle_active_piece writing TB_DEFAULT for active_piece.color
SettleResult_ColorLost(b, p) ==
  LET w == SettleWrite(b, [p EXCEPT !.color = "TB_DEFAULT"], 1, NoLines)
  IN  IF w.game_over THEN [game_over |-> TRUE, board |-> w.board]
      ELSE [game_over |-> FALSE, board |-> ClearLines(w.board, w.lines, 1)]

\* the board settle_active_piece leaves, and whether it took the game-over exit
SettleResult(b, p) ==
  LET w == SettleWrite(b, p, 1, NoLines)
  IN  IF w.game_over THEN [game_over |-> TRUE, board |-> w.board]
      ELSE [game_over |-> FALSE, board |-> ClearLines(w.board, w.lines, 1)]

\* create_new_active_piece with the overlap loop one block short (i < 3)
SpawnCollides_LoopShort(b, p) ==
  \E i \in 1 .. 3 : BoardRead(b, p.blocks[i].x, p.blocks[i].y) # "TB_BLACK"

\* game_over_happens of create_new_active_piece
SpawnCollides(b, p) ==
  \E i \in 1 .. 4 : BoardRead(b, p.blocks[i].x, p.blocks[i].y) # "TB_BLACK"

Keys == {"ESC", "LEFT", "RIGHT", "DOWN", "UP", "SPACE", "P", "ENTER"}

NoSeen == [gen |-> -1, blocks |-> <<>>]

VARIABLES
  board,              \* board[x][y]: colour of the settled cell
  active_piece,       \* [blocks, color]
  GAME_STATE,         \* "PLAY", "PAUSE", "GAME_OVER", "QUIT"
  board_mutex,        \* the thread that holds it, or "free"
  active_piece_mutex, \* the thread that holds it, or "free"
  pc,                 \* pc[t]
  stack,              \* stack[t]
  d,                  \* d[t]: the argument of move_active_piece
  event,              \* the key tb_poll_event delivered, "NONE" once handled
  gen,                \* pieces made so far by create_new_active_piece
  seen,               \* seen[t]: the piece move_active_piece(DOWN) found blocked
  nev,                \* events delivered so far
  nticks,             \* gravity iterations so far
  outcome,            \* outcome[t]: how the thread's last move or rotate ended
  start               \* the grid, piece and state the behaviour began with

vars == <<board, active_piece, GAME_STATE, board_mutex, active_piece_mutex,
          pc, stack, d, event, gen, seen, nev, nticks, outcome, start>>

\* what the variable start records
Snapshot(b, p, g) == [board |-> b, active_piece |-> p, GAME_STATE |-> g]

\* ------------------------------------------------------------------- Init
\* The process image before main runs: zero-initialised board and piece,
\* GAME_STATE = PAUSE, the input thread not created yet.
Init ==
  /\ board = ZeroBoard
  /\ active_piece = ZeroPiece
  /\ GAME_STATE = "PAUSE"
  /\ board_mutex = "free"
  /\ active_piece_mutex = "free"
  /\ pc = [t \in Threads |-> IF t = "main" THEN "initialize" ELSE "not_created"]
  /\ stack = [t \in Threads |-> <<>>]
  /\ d = [t \in Threads |-> "DOWN"]
  /\ event = "NONE"
  /\ gen = 0
  /\ seen = [t \in Threads |-> NoSeen]
  /\ nev = 0
  /\ nticks = 0
  /\ outcome = [t \in Threads |-> "none"]
  /\ start = Snapshot(board, active_piece, GAME_STATE)

\* ---------------------------------------------------------------- control
\* exit() ends every thread
Running(t) == (\A u \in Threads : pc[u] # "exited") /\ pc[t] # "thread_exit"

Goto(t, l) == pc' = [pc EXCEPT ![t] = l]

\* return to the caller: continue at the head of the stack
Return(t) ==
  /\ pc' = [pc EXCEPT ![t] = Head(stack[t])]
  /\ stack' = [stack EXCEPT ![t] = Tail(stack[t])]

Push(t, l) == stack' = [stack EXCEPT ![t] = <<l>> \o stack[t]]

\* hard_drop_active_piece with an if for its while: no second call
InHardDrop_SingleCall(t) == stack[t] # <<>> /\ Head(stack[t]) = "hd_loop" /\ pc[t] = "hd_loop"

\* hard_drop_active_piece is the caller of the running move_active_piece
InHardDrop(t) == stack[t] # <<>> /\ Head(stack[t]) = "hd_loop"

\* ------------------------------------------------------ initialize, main
\* initialize(): pthread_create, then setup_new_game(); render();
\* resume_game(); back in main, the loop.
Initialize ==
  /\ pc["main"] = "initialize"
  /\ pc' = [main |-> "sng_lock", input |-> "ev_loop"]
  /\ stack' = [stack EXCEPT !["main"] = <<"rn_lock_board", "rs_check", "main_loop">>]
  /\ UNCHANGED <<outcome, start>>
  /\ UNCHANGED <<board, active_piece, GAME_STATE, board_mutex,
                 active_piece_mutex, d, event, gen, seen, nev, nticks>>

\* one evaluation of switch (GAME_STATE) in main's loop; PAUSE and GAME_OVER
\* break at once and leave the state as it is
MainLoop ==
  /\ Running("main")
  /\ pc["main"] = "main_loop"
  /\ outcome' = [outcome EXCEPT !["main"] = "none"]
  /\ \/ /\ GAME_STATE = "PLAY"
        /\ nticks < MaxTicks
        /\ nticks' = nticks + 1
        /\ Goto("main", "mv_lock_ap")
        /\ Push("main", "main_loop")
        /\ d' = [d EXCEPT !["main"] = "DOWN"]
     \/ /\ GAME_STATE = "QUIT"
        /\ Goto("main", "quit_set")
        /\ UNCHANGED <<stack, d, nticks>>
  /\ UNCHANGED start
  /\ UNCHANGED <<board, active_piece, GAME_STATE, board_mutex,
                 active_piece_mutex, event, gen, seen, nev>>

\* ------------------------------------------------------- setup_new_game
SetupLock(t) ==
  /\ Running(t)
  /\ pc[t] = "sng_lock"
  /\ board_mutex = "free"
  /\ board_mutex' = t
  /\ Goto(t, "sng_clear")
  /\ UNCHANGED <<outcome, start>>
  /\ UNCHANGED <<board, active_piece, GAME_STATE, active_piece_mutex, stack,
                 d, event, gen, seen, nev, nticks>>

\* the clearing loops, the unlock, and the call of create_new_active_piece
\* (in tail position)
SetupClear(t) ==
  /\ Running(t)
  /\ pc[t] = "sng_clear"
  /\ board' = BlackBoard
  /\ board_mutex' = "free"
  /\ Goto(t, "cnap_lock_ap")
  /\ UNCHANGED <<outcome, start>>
  /\ UNCHANGED <<active_piece, GAME_STATE, active_piece_mutex, stack, d,
                 event, gen, seen, nev, nticks>>

\* ----------------------------------------------- create_new_active_piece
\* lock active_piece_mutex; i = rand() % 7; active_piece = BLOCK_TYPE_NAMES[i]
CreateLockPiece(t) ==
  /\ Running(t)
  /\ pc[t] = "cnap_lock_ap"
  /\ active_piece_mutex = "free"
  /\ gen < MaxSpawns
  /\ active_piece_mutex' = t
  /\ \E i \in 1 .. 7 : active_piece' = BLOCK_TYPE_NAMES[i]
  /\ gen' = gen + 1
  /\ Goto(t, "cnap_lock_board")
  /\ UNCHANGED <<outcome, start>>
  /\ UNCHANGED <<board, GAME_STATE, board_mutex, stack, d, event, seen, nev,
                 nticks>>

CreateLockBoard(t) ==
  /\ Running(t)
  /\ pc[t] = "cnap_lock_board"
  /\ board_mutex = "free"
  /\ board_mutex' = t
  /\ Goto(t, "cnap_check")
  /\ UNCHANGED <<outcome, start>>
  /\ UNCHANGED <<board, active_piece, GAME_STATE, active_piece_mutex, stack,
                 d, event, gen, seen, nev, nticks>>

\* the overlap loop, both unlocks, render(); game_over() follows the render
\* when game_over_happens
CreateCheck(t) ==
  /\ Running(t)
  /\ pc[t] = "cnap_check"
  /\ board_mutex' = "free"
  /\ active_piece_mutex' = "free"
  /\ Goto(t, "rn_lock_board")
  /\ IF SpawnCollides(board, active_piece)
     THEN Push(t, "game_over")
     ELSE UNCHANGED stack
  /\ UNCHANGED <<outcome, start>>
  /\ UNCHANGED <<board, active_piece, GAME_STATE, d, event, gen, seen, nev,
                 nticks>>

\* ----------------------------------------------------------------- render
RenderLockBoard(t) ==
  /\ Running(t)
  /\ pc[t] = "rn_lock_board"
  /\ board_mutex = "free"
  /\ board_mutex' = t
  /\ Goto(t, "rn_lock_ap")
  /\ UNCHANGED <<outcome, start>>
  /\ UNCHANGED <<board, active_piece, GAME_STATE, active_piece_mutex, stack,
                 d, event, gen, seen, nev, nticks>>

RenderLockPiece(t) ==
  /\ Running(t)
  /\ pc[t] = "rn_lock_ap"
  /\ active_piece_mutex = "free"
  /\ active_piece_mutex' = t
  /\ Goto(t, "rn_draw")
  /\ UNCHANGED <<outcome, start>>
  /\ UNCHANGED <<board, active_piece, GAME_STATE, board_mutex, stack, d,
                 event, gen, seen, nev, nticks>>

\* the drawing (no program state changes), both unlocks, return
RenderDraw(t) ==
  /\ Running(t)
  /\ pc[t] = "rn_draw"
  /\ board_mutex' = "free"
  /\ active_piece_mutex' = "free"
  /\ Return(t)
  /\ UNCHANGED <<outcome, start>>
  /\ UNCHANGED <<board, active_piece, GAME_STATE, d, event, gen, seen, nev,
                 nticks>>

\* ------------------------------------- game_over, resume_game, pause_game
game_over(t) ==
  /\ Running(t)
  /\ pc[t] = "game_over"
  /\ GAME_STATE' = "GAME_OVER"
  /\ Return(t)
  /\ UNCHANGED <<outcome, start>>
  /\ UNCHANGED <<board, active_piece, board_mutex, active_piece_mutex, d,
                 event, gen, seen, nev, nticks>>

\* if (GAME_STATE == PLAY) return; show_321_countdown(); render();
ResumeCheck(t) ==
  /\ Running(t)
  /\ pc[t] = "rs_check"
  /\ IF GAME_STATE = "PLAY"
     THEN Return(t)
     ELSE Goto(t, "rn_lock_board") /\ Push(t, "rs_set")
  /\ UNCHANGED <<outcome, start>>
  /\ UNCHANGED <<board, active_piece, GAME_STATE, board_mutex,
                 active_piece_mutex, d, event, gen, seen, nev, nticks>>

\* GAME_STATE = PLAY; return;
ResumeSet(t) ==
  /\ Running(t)
  /\ pc[t] = "rs_set"
  /\ GAME_STATE' = "PLAY"
  /\ Return(t)
  /\ UNCHANGED <<outcome, start>>
  /\ UNCHANGED <<board, active_piece, board_mutex, active_piece_mutex, d,
                 event, gen, seen, nev, nticks>>

pause_game ==
  /\ Running("input")
  /\ pc["input"] = "pause_game"
  /\ GAME_STATE' = "PAUSE"
  /\ Goto("input", "ev_loop")
  /\ UNCHANGED <<outcome, start>>
  /\ UNCHANGED <<board, active_piece, board_mutex, active_piece_mutex, stack,
                 d, event, gen, seen, nev, nticks>>

\* ------------------------------------------------------ move_active_piece
MoveLockPiece(t) ==
  /\ Running(t)
  /\ pc[t] = "mv_lock_ap"
  /\ active_piece_mutex = "free"
  /\ active_piece_mutex' = t
  /\ Goto(t, "mv_lock_board")
  /\ UNCHANGED <<outcome, start>>
  /\ UNCHANGED <<board, active_piece, GAME_STATE, board_mutex, stack, d,
                 event, gen, seen, nev, nticks>>

MoveLockBoard(t) ==
  /\ Running(t)
  /\ pc[t] = "mv_lock_board"
  /\ board_mutex = "free"
  /\ board_mutex' = t
  /\ Goto(t, "mv_check")
  /\ UNCHANGED <<outcome, start>>
  /\ UNCHANGED <<board, active_piece, GAME_STATE, active_piece_mutex, stack,
                 d, event, gen, seen, nev, nticks>>

\* The checking loop and what follows it up to the next call.
\*  - blocked LEFT/RIGHT: both unlocks, return true;
\*  - blocked DOWN: both unlocks, settle_active_piece(), return false;
\*  - otherwise: unlock the board, write the 4 blocks, unlock the piece,
\*    render(), return true.
\* Returning true to hard_drop_active_piece calls move_active_piece(DOWN)
\* again; returning false to it ends it, so the settle then continues at
\* hard_drop_active_piece's caller.
MoveCheck(t) ==
  /\ Running(t)
  /\ pc[t] = "mv_check"
  /\ board_mutex' = "free"
  /\ active_piece_mutex' = "free"
  /\ d' = [d EXCEPT ![t] = "DOWN"]
  /\ IF ~MoveRejected(board, active_piece, d[t])
     THEN /\ active_piece' = MovedPiece(active_piece, d[t])
          /\ Goto(t, "rn_lock_board")
          /\ IF InHardDrop(t) THEN Push(t, "mv_lock_ap") ELSE UNCHANGED stack
          /\ outcome' = [outcome EXCEPT ![t] = "moved"]
          /\ UNCHANGED seen
     ELSE IF d[t] # "DOWN"
     THEN /\ Return(t)
          /\ outcome' = [outcome EXCEPT ![t] = "blocked"]
          /\ UNCHANGED <<active_piece, seen>>
     ELSE /\ Goto(t, "st_lock_ap")
          /\ stack' = [stack EXCEPT ![t] =
                         IF InHardDrop(t) THEN Tail(stack[t]) ELSE stack[t]]
          /\ seen' = [seen EXCEPT ![t] =
                        [gen |-> gen, blocks |-> active_piece.blocks]]
          /\ outcome' = [outcome EXCEPT ![t] = "settle"]
          /\ UNCHANGED active_piece
  /\ UNCHANGED start
  /\ UNCHANGED <<board, GAME_STATE, event, gen, nev, nticks>>

\* ---------------------------------------------------- rotate_active_piece
\* lock active_piece_mutex; the O piece unlocks and returns at once
RotateLockPiece(t) ==
  /\ Running(t)
  /\ pc[t] = "rt_lock_ap"
  /\ active_piece_mutex = "free"
  /\ IF active_piece.color = "TB_RED"
     THEN /\ Return(t)
          /\ outcome' = [outcome EXCEPT ![t] = "skipped"]
          /\ UNCHANGED active_piece_mutex
     ELSE /\ active_piece_mutex' = t
          /\ Goto(t, "rt_lock_board")
          /\ UNCHANGED <<stack, outcome>>
  /\ UNCHANGED start
  /\ UNCHANGED <<board, active_piece, GAME_STATE, board_mutex, d, event, gen,
                 seen, nev, nticks>>

RotateLockBoard(t) ==
  /\ Running(t)
  /\ pc[t] = "rt_lock_board"
  /\ board_mutex = "free"
  /\ board_mutex' = t
  /\ Goto(t, "rt_check")
  /\ UNCHANGED <<outcome, start>>
  /\ UNCHANGED <<board, active_piece, GAME_STATE, active_piece_mutex, stack,
                 d, event, gen, seen, nev, nticks>>

\* the guard loop; rejected: both unlocks, return; otherwise unlock the
\* board, write blocks 1..3, unlock the piece, render()
RotateCheck(t) ==
  /\ Running(t)
  /\ pc[t] = "rt_check"
  /\ board_mutex' = "free"
  /\ active_piece_mutex' = "free"
  /\ IF RotateRejected(board, active_piece)
     THEN /\ Return(t)
          /\ outcome' = [outcome EXCEPT ![t] = "unrotated"]
          /\ UNCHANGED active_piece
     ELSE /\ active_piece' = RotatedPiece(active_piece)
          /\ outcome' = [outcome EXCEPT ![t] = "rotated"]
          /\ Goto(t, "rn_lock_board")
          /\ UNCHANGED stack
  /\ UNCHANGED start
  /\ UNCHANGED <<board, GAME_STATE, d, event, gen, seen, nev, nticks>>

\* ---------------------------------------------------- settle_active_piece
SettleLockPiece(t) ==
  /\ Running(t)
  /\ pc[t] = "st_lock_ap"
  /\ active_piece_mutex = "free"
  /\ active_piece_mutex' = t
  /\ Goto(t, "st_lock_board")
  /\ UNCHANGED <<outcome, start>>
  /\ UNCHANGED <<board, active_piece, GAME_STATE, board_mutex, stack, d,
                 event, gen, seen, nev, nticks>>

SettleLockBoard(t) ==
  /\ Running(t)
  /\ pc[t] = "st_lock_board"
  /\ board_mutex = "free"
  /\ board_mutex' = t
  /\ Goto(t, "st_body")
  /\ UNCHANGED <<outcome, start>>
  /\ UNCHANGED <<board, active_piece, GAME_STATE, active_piece_mutex, stack,
                 d, event, gen, seen, nev, nticks>>

\* The writing loop, the line removal and both unlocks; then either
\* render(); game_over(); return (a block above the board) or
\* create_new_active_piece() (in tail position).
SettleBody(t) ==
  /\ Running(t)
  /\ pc[t] = "st_body"
  /\ LET r == SettleResult(board, active_piece)
     IN  /\ board' = r.board
         /\ IF r.game_over
            THEN Goto(t, "rn_lock_board") /\ Push(t, "game_over")
            ELSE Goto(t, "cnap_lock_ap") /\ UNCHANGED stack
  /\ board_mutex' = "free"
  /\ active_piece_mutex' = "free"
  /\ seen' = [seen EXCEPT ![t] = NoSeen]
  /\ UNCHANGED <<outcome, start>>
  /\ UNCHANGED <<active_piece, GAME_STATE, d, event, gen, nev, nticks>>

\* ------------------------------------------ event_handler_pthread_routine
\* while (GAME_STATE != QUIT)
EventLoop ==
  /\ Running("input")
  /\ pc["input"] = "ev_loop"
  /\ Goto("input", IF GAME_STATE = "QUIT" THEN "thread_exit" ELSE "ev_poll")
  /\ outcome' = [outcome EXCEPT !["input"] = "none"]
  /\ UNCHANGED start
  /\ UNCHANGED <<board, active_piece, GAME_STATE, board_mutex,
                 active_piece_mutex, stack, d, event, gen, seen, nev, nticks>>

\* tb_poll_event returns a key event
PollEvent ==
  /\ Running("input")
  /\ pc["input"] = "ev_poll"
  /\ nev < MaxEvents
  /\ nev' = nev + 1
  /\ \E k \in Keys : event' = k
  /\ Goto("input", "ev_dispatch")
  /\ UNCHANGED <<outcome, start>>
  /\ UNCHANGED <<board, active_piece, GAME_STATE, board_mutex,
                 active_piece_mutex, stack, d, gen, seen, nticks>>

\* where switch (GAME_STATE) { switch (event.key) ... } sends the thread:
\* the place it continues at, the stack, and the argument of a move
EventTarget(state, k) ==
  CASE state = "PLAY" /\ k = "ESC" ->
         [pc |-> "ev_quit", stack |-> <<>>, d |-> "DOWN"]
    [] state = "PLAY" /\ k \in {"LEFT", "RIGHT", "DOWN"} ->
         [pc |-> "mv_lock_ap", stack |-> <<"ev_loop">>, d |-> k]
    [] state = "PLAY" /\ k = "UP" ->
         [pc |-> "rt_lock_ap", stack |-> <<"ev_loop">>, d |-> "DOWN"]
    [] state = "PLAY" /\ k = "SPACE" ->
         [pc |-> "mv_lock_ap", stack |-> <<"hd_loop", "ev_loop">>, d |-> "DOWN"]
    [] state = "PLAY" /\ k = "P" ->
         [pc |-> "pause_game", stack |-> <<>>, d |-> "DOWN"]
    [] state = "GAME_OVER" /\ k = "ENTER" ->
         [pc |-> "sng_lock", stack |-> <<"rn_lock_board", "rs_check", "ev_loop">>,
          d |-> "DOWN"]
    [] state = "GAME_OVER" /\ k = "ESC" ->
         [pc |-> "ev_quit", stack |-> <<>>, d |-> "DOWN"]
    [] state = "PAUSE" /\ k = "P" ->
         [pc |-> "rs_check", stack |-> <<"ev_loop">>, d |-> "DOWN"]
    [] OTHER ->
         [pc |-> "ev_loop", stack |-> <<>>, d |-> "DOWN"]

Dispatch ==
  /\ Running("input")
  /\ pc["input"] = "ev_dispatch"
  /\ LET target == EventTarget(GAME_STATE, event)
     IN  /\ Goto("input", target.pc)
         /\ stack' = [stack EXCEPT !["input"] = target.stack]
         /\ d' = [d EXCEPT !["input"] = target.d]
  /\ event' = "NONE"
  /\ UNCHANGED <<outcome, start>>
  /\ UNCHANGED <<board, active_piece, GAME_STATE, board_mutex,
                 active_piece_mutex, gen, seen, nev, nticks>>

\* GAME_STATE = QUIT; (case TB_KEY_CTRL_C / TB_KEY_ESC)
EventQuit ==
  /\ Running("input")
  /\ pc["input"] = "ev_quit"
  /\ GAME_STATE' = "QUIT"
  /\ Goto("input", "ev_loop")
  /\ UNCHANGED <<outcome, start>>
  /\ UNCHANGED <<board, active_piece, board_mutex, active_piece_mutex, stack,
                 d, event, gen, seen, nev, nticks>>

\* ------------------------------------------------------------------- quit
\* quit() runs in the thread that calls it: main, from its loop, or the
\* thread a SIGINT is delivered to, from sigint_handler.
\* GAME_STATE = QUIT;
QuitSet(t) ==
  /\ Running(t)
  /\ pc[t] = "quit_set"
  /\ GAME_STATE' = "QUIT"
  /\ Goto(t, "quit_join")
  /\ UNCHANGED <<outcome, start>>
  /\ UNCHANGED <<board, active_piece, board_mutex, active_piece_mutex, stack,
                 d, event, gen, seen, nev, nticks>>

\* pthread_join(event_handler_pt) returns once the input thread has exited.
\* Called by the input thread itself it is a join with the calling thread:
\* it fails at once with EDEADLK, or it never returns.
QuitJoin(t) ==
  /\ Running(t)
  /\ pc[t] = "quit_join"
  /\ IF t = "input"
     THEN Goto(t, "quit_destroy") \/ Goto(t, "join_hung")
     ELSE pc["input"] = "thread_exit" /\ Goto(t, "quit_destroy")
  /\ UNCHANGED <<outcome, start>>
  /\ UNCHANGED <<board, active_piece, GAME_STATE, board_mutex,
                 active_piece_mutex, stack, d, event, gen, seen, nev, nticks>>

\* unlock and destroy both mutexes, tb_shutdown, exit
QuitDestroy(t) ==
  /\ Running(t)
  /\ pc[t] = "quit_destroy"
  /\ board_mutex' = "destroyed"
  /\ active_piece_mutex' = "destroyed"
  /\ Goto(t, "exited")
  /\ UNCHANGED <<outcome, start>>
  /\ UNCHANGED <<board, active_piece, GAME_STATE, stack, d, event, gen, seen,
                 nev, nticks>>

\* ------------------------------------------------------------------- Next
\* every step but the first one of main
Play ==
  \/ MainLoop
  \/ EventLoop
  \/ PollEvent
  \/ Dispatch
  \/ EventQuit
  \/ pause_game
  \/ \E t \in Threads :
       \/ QuitSet(t)
       \/ QuitJoin(t)
       \/ QuitDestroy(t)
       \/ SetupLock(t)
       \/ SetupClear(t)
       \/ CreateLockPiece(t)
       \/ CreateLockBoard(t)
       \/ CreateCheck(t)
       \/ RenderLockBoard(t)
       \/ RenderLockPiece(t)
       \/ RenderDraw(t)
       \/ game_over(t)
       \/ ResumeCheck(t)
       \/ ResumeSet(t)
       \/ MoveLockPiece(t)
       \/ MoveLockBoard(t)
       \/ MoveCheck(t)
       \/ RotateLockPiece(t)
       \/ RotateLockBoard(t)
       \/ RotateCheck(t)
       \/ SettleLockPiece(t)
       \/ SettleLockBoard(t)
       \/ SettleBody(t)

Next == Initialize \/ Play

\* the program from the start of main
Spec == Init /\ [][Next]_vars

\* The program from the moment initialize() has returned into main's loop
\* with the input thread still waiting for its first event: an empty board,
\* the first piece just spawned, GAME_STATE = PLAY.
InitPlay ==
  /\ board = BlackBoard
  /\ \E i \in 1 .. 7 : active_piece = BLOCK_TYPE_NAMES[i]
  /\ GAME_STATE = "PLAY"
  /\ board_mutex = "free"
  /\ active_piece_mutex = "free"
  /\ pc = [t \in Threads |-> IF t = "main" THEN "main_loop" ELSE "ev_loop"]
  /\ stack = [t \in Threads |-> <<>>]
  /\ d = [t \in Threads |-> "DOWN"]
  /\ event = "NONE"
  /\ gen = 1
  /\ seen = [t \in Threads |-> NoSeen]
  /\ nev = 0
  /\ nticks = 0
  /\ outcome = [t \in Threads |-> "none"]
  /\ start = Snapshot(board, active_piece, GAME_STATE)

SpecPlay == InitPlay /\ [][Play]_vars

\* ---------------------------------------------- settle_active_piece alone
\* settle_active_piece as a function of the grid and the piece it is given:
\* the input thread stands at the head of settle_active_piece's critical
\* section after an arrow-down found the piece blocked, for a family of
\* grids and resting pieces.

\* the orientations rotate_active_piece gives a template (none for O)
Orientations(tpl) ==
  IF tpl.color = "TB_RED" THEN {tpl}
  ELSE {tpl, RotatedPiece(tpl), RotatedPiece(RotatedPiece(tpl)),
        RotatedPiece(RotatedPiece(RotatedPiece(tpl)))}

Translate(p, dx, dy) ==
  [p EXCEPT !.blocks = [i \in 1 .. 4 |-> B(p.blocks[i].x + dx, p.blocks[i].y + dy)]]

OnBoard(p) ==
  \A i \in 1 .. 4 : p.blocks[i].x \in Cols /\ p.blocks[i].y \in Rows

\* every position and orientation of a piece that lies on the board
Placements ==
  {q \in {Translate(o, dx, dy) :
            o \in UNION {Orientations(BLOCK_TYPE_NAMES[i]) : i \in 1 .. 7},
            dx \in (0 - BOARD_WIDTH) .. BOARD_WIDTH, dy \in 0 .. BOARD_HEIGHT} :
     OnBoard(q)}

Covers(p, x, y) == \E i \in 1 .. 4 : p.blocks[i] = B(x, y)

\* the leftmost column the piece has no cell in
StackCol(p) ==
  CHOOSE c \in Cols :
    /\ \A i \in 1 .. 4 : p.blocks[i].x # c
    /\ \A e \in Cols : (\A i \in 1 .. 4 : p.blocks[i].x # e) => c <= e

RowColor(y) == PieceColors[(y % 7) + 1]

\* A grid around piece p, row by row: an "empty" row; a "gap" row, settled
\* everywhere but under the piece, which the piece completes; a "stack" row,
\* settled in the one column StackCol(p).
GridAround(p, kinds) ==
  [x \in Cols |-> [y \in Rows |->
     CASE kinds[y] = "gap" /\ ~Covers(p, x, y) -> RowColor(y)
       [] kinds[y] = "stack" /\ x = StackCol(p) -> RowColor(y)
       [] OTHER -> "TB_BLACK"]]

\* settled rows reach down to the floor without an empty row between them,
\* and a "gap" row is one the piece has a cell in
KindsFor(p) ==
  {k \in [Rows -> {"empty", "gap", "stack"}] :
     /\ \A y \in Rows : k[y] # "empty" => \A z \in Rows : z > y => k[z] # "empty"
     /\ \A y \in Rows : k[y] = "gap" => \E i \in 1 .. 4 : p.blocks[i].y = y}

\* the template piece p was spawned from
TemplateOf(p) ==
  CHOOSE tpl \in {BLOCK_TYPE_NAMES[i] : i \in 1 .. 7} : tpl.color = p.color

\* a cell of q on the board lies on a settled cell
Overlaps(b, q) ==
  \E i \in 1 .. 4 :
    /\ q.blocks[i].x \in Cols /\ q.blocks[i].y \in Rows
    /\ b[q.blocks[i].x][q.blocks[i].y] # "TB_BLACK"

\* The piece was spawned without a collision, fell to where it is through
\* free cells, and is blocked on DOWN there.
InitSettle ==
  /\ \E p \in Placements : \E k \in KindsFor(p) :
       /\ active_piece = p
       /\ board = GridAround(p, k)
       /\ ~SpawnCollides(board, TemplateOf(p))
       /\ \A up \in 1 .. BOARD_HEIGHT : ~Overlaps(board, Translate(p, 0, 0 - up))
       /\ MoveRejected(board, active_piece, "DOWN")
  /\ GAME_STATE = "PLAY"
  /\ board_mutex = "input"
  /\ active_piece_mutex = "input"
  /\ pc = [t \in Threads |-> IF t = "main" THEN "main_loop" ELSE "st_body"]
  /\ stack = [t \in Threads |-> IF t = "main" THEN <<>> ELSE <<"ev_loop">>]
  /\ d = [t \in Threads |-> "DOWN"]
  /\ event = "NONE"
  /\ gen = 1
  /\ seen = [t \in Threads |->
               IF t = "main" THEN NoSeen
               ELSE [gen |-> 1, blocks |-> active_piece.blocks]]
  /\ nev = 1
  /\ nticks = 0
  /\ outcome = [t \in Threads |-> IF t = "main" THEN "none" ELSE "settle"]
  /\ start = Snapshot(board, active_piece, GAME_STATE)

NextSettle == \E t \in Threads : SettleBody(t)

SpecSettle == InitSettle /\ [][NextSettle]_vars

\* ---------------------------------------------- rotate_active_piece alone
\* Four consecutive calls of rotate_active_piece by one caller, with no step
\* of the other thread, for every piece position and a family of grids.
RotateCalls == 4

InitRotate ==
  /\ \E p \in Placements :
       /\ active_piece = p
       /\ board \in {BlackBoard} \cup {GridAround(p, k) : k \in KindsFor(p)}
  /\ GAME_STATE = "PLAY"
  /\ board_mutex = "free"
  /\ active_piece_mutex = "free"
  /\ pc = [t \in Threads |-> IF t = "main" THEN "main_loop" ELSE "rt_lock_ap"]
  /\ stack = [t \in Threads |->
                IF t = "main" THEN <<>>
                ELSE [i \in 1 .. RotateCalls |->
                        IF i < RotateCalls THEN "rt_lock_ap" ELSE "done"]]
  /\ d = [t \in Threads |-> "DOWN"]
  /\ event = "NONE"
  /\ gen = 1
  /\ seen = [t \in Threads |-> NoSeen]
  /\ nev = 0
  /\ nticks = 0
  /\ outcome = [t \in Threads |-> "none"]
  /\ start = Snapshot(board, active_piece, GAME_STATE)

NextRotate ==
  \E t \in Threads :
    \/ RotateLockPiece(t)
    \/ RotateLockBoard(t)
    \/ RotateCheck(t)
    \/ RenderLockBoard(t)
    \/ RenderLockPiece(t)
    \/ RenderDraw(t)

SpecRotate == InitRotate /\ [][NextRotate]_vars

\* ------------------------------------------- dropping a piece, one caller
\* One caller drops the piece it is given until it settles, with no step of
\* the other thread: the input thread by one hard_drop_active_piece(), or
\* the gravity thread by the move_active_piece(DOWN) of its loop, called
\* again for as long as the call returned true.

\* the orientations of the templates, translated so that every cell is in a
\* column of the board and none is below the floor
DropStarts ==
  {q \in {Translate(o, dx, dy) :
            o \in UNION {Orientations(BLOCK_TYPE_NAMES[i]) : i \in 1 .. 7},
            dx \in (0 - BOARD_WIDTH) .. BOARD_WIDTH, dy \in 0 .. BOARD_HEIGHT} :
     \A i \in 1 .. 4 : q.blocks[i].x \in Cols /\ q.blocks[i].y < BOARD_HEIGHT}

\* the grids built around the places below p, which p does not lie on
GridsBelow(p) ==
  {g \in UNION {{GridAround(Translate(p, 0, dy), k) :
                   k \in KindsFor(Translate(p, 0, dy))} :
                dy \in {j \in 0 .. BOARD_HEIGHT : OnBoard(Translate(p, 0, j))}} :
     ~Overlaps(g, p)}

\* the gravity thread's next move_active_piece(DOWN) after one that
\* returned true; the one that returned false (it settled) was the last
SoftDropLoop ==
  /\ pc["main"] = "sd_loop"
  /\ IF outcome["main"] = "settle"
     THEN Goto("main", "done") /\ UNCHANGED stack
     ELSE Goto("main", "mv_lock_ap") /\ Push("main", "sd_loop")
  /\ d' = [d EXCEPT !["main"] = "DOWN"]
  /\ UNCHANGED <<outcome, start>>
  /\ UNCHANGED <<board, active_piece, GAME_STATE, board_mutex,
                 active_piece_mutex, event, gen, seen, nev, nticks>>

InitDrop ==
  /\ \E p \in DropStarts :
       /\ active_piece = p
       /\ board \in {BlackBoard} \cup GridsBelow(p)
  /\ GAME_STATE = "PLAY"
  /\ board_mutex = "free"
  /\ active_piece_mutex = "free"
  /\ \/ /\ pc = [main |-> "main_loop", input |-> "mv_lock_ap"]
        /\ stack = [main |-> <<>>, input |-> <<"hd_loop", "done">>]
     \/ /\ pc = [main |-> "sd_loop", input |-> "ev_poll"]
        /\ stack = [main |-> <<>>, input |-> <<>>]
  /\ d = [t \in Threads |-> "DOWN"]
  /\ event = "NONE"
  /\ gen = 1
  /\ seen = [t \in Threads |-> NoSeen]
  /\ nev = 0
  /\ nticks = 0
  /\ outcome = [t \in Threads |-> "none"]
  /\ start = Snapshot(board, active_piece, GAME_STATE)

NextDrop ==
  \/ SoftDropLoop
  \/ \E t \in Threads :
       \/ MoveLockPiece(t)
       \/ MoveLockBoard(t)
       \/ MoveCheck(t)
       \/ SettleLockPiece(t)
       \/ SettleLockBoard(t)
       \/ SettleBody(t)
       \/ CreateLockPiece(t)
       \/ CreateLockBoard(t)
       \/ CreateCheck(t)
       \/ RenderLockBoard(t)
       \/ RenderLockPiece(t)
       \/ RenderDraw(t)
       \/ game_over(t)

\* the one caller keeps running
SpecDrop == InitDrop /\ [][NextDrop]_vars /\ WF_vars(NextDrop)

\* ------------------------------------------------- shutdown, with SIGINT
\* The game one gravity tick and one unhandled key after its start, with
\* SIGINT delivered to either thread at any of its steps, both threads
\* scheduled fairly and tb_poll_event returning events for ever.

\* SIGINT is delivered to thread t while quit() is not running yet:
\* sigint_handler calls quit(), which never returns, on top of whatever t
\* was doing and with the mutexes t holds
Sigint(t) ==
  /\ Running(t)
  /\ \A u \in Threads :
       pc[u] \notin {"quit_set", "quit_join", "quit_destroy", "join_hung"}
  /\ Goto(t, "quit_set")
  /\ UNCHANGED <<outcome, start>>
  /\ UNCHANGED <<board, active_piece, GAME_STATE, board_mutex,
                 active_piece_mutex, stack, d, event, gen, seen, nev, nticks>>

\* tb_poll_event returns an event no case of the handler matches (a resize,
\* a key without a binding); there is no bound on how many of them arrive
PollUnhandled ==
  /\ Running("input")
  /\ pc["input"] = "ev_poll"
  /\ event' = "UNHANDLED"
  /\ Goto("input", "ev_dispatch")
  /\ UNCHANGED <<outcome, start>>
  /\ UNCHANGED <<board, active_piece, GAME_STATE, board_mutex,
                 active_piece_mutex, stack, d, gen, seen, nev, nticks>>

InitQuit ==
  /\ board = BlackBoard
  /\ \E i \in 1 .. 7 : active_piece = Translate(BLOCK_TYPE_NAMES[i], 0, 1)
  /\ GAME_STATE = "PLAY"
  /\ board_mutex = "free"
  /\ active_piece_mutex = "free"
  /\ pc = [main |-> "main_loop", input |-> "ev_loop"]
  /\ stack = [t \in Threads |-> <<>>]
  /\ d = [t \in Threads |-> "DOWN"]
  /\ event = "NONE"
  /\ gen = 1
  /\ seen = [t \in Threads |-> NoSeen]
  /\ nev = 1
  /\ nticks = 1
  /\ outcome = [t \in Threads |-> "none"]
  /\ start = Snapshot(board, active_piece, GAME_STATE)

NextQuit ==
  \/ Play
  \/ PollUnhandled
  \/ \E t \in Threads : Sigint(t)

\* the steps of thread t, a signal's delivery apart
ThreadStep(t) ==
  \/ t = "main" /\ MainLoop
  \/ t = "input" /\ (EventLoop \/ PollEvent \/ PollUnhandled \/ Dispatch
                       \/ EventQuit \/ pause_game)
  \/ QuitSet(t) \/ QuitJoin(t) \/ QuitDestroy(t)
  \/ SetupLock(t) \/ SetupClear(t)
  \/ CreateLockPiece(t) \/ CreateLockBoard(t) \/ CreateCheck(t)
  \/ RenderLockBoard(t) \/ RenderLockPiece(t) \/ RenderDraw(t)
  \/ game_over(t) \/ ResumeCheck(t) \/ ResumeSet(t)
  \/ MoveLockPiece(t) \/ MoveLockBoard(t) \/ MoveCheck(t)
  \/ RotateLockPiece(t) \/ RotateLockBoard(t) \/ RotateCheck(t)
  \/ SettleLockPiece(t) \/ SettleLockBoard(t) \/ SettleBody(t)

SpecQuit ==
  /\ InitQuit
  /\ [][NextQuit]_vars
  /\ \A t \in Threads : WF_vars(ThreadStep(t))

\* ------------------------------------- one hard drop against the gravity
\* The space key of a new game was the last event delivered: the input
\* thread has entered hard_drop_active_piece for the first piece while the
\* gravity thread runs its loop.
InitHardDrop ==
  /\ board = BlackBoard
  /\ \E i \in 1 .. 7 : active_piece = BLOCK_TYPE_NAMES[i]
  /\ GAME_STATE = "PLAY"
  /\ board_mutex = "free"
  /\ active_piece_mutex = "free"
  /\ pc = [main |-> "main_loop", input |-> "mv_lock_ap"]
  /\ stack = [main |-> <<>>, input |-> <<"hd_loop", "done">>]
  /\ d = [t \in Threads |-> "DOWN"]
  /\ event = "NONE"
  /\ gen = 1
  /\ seen = [t \in Threads |-> NoSeen]
  /\ nev = MaxEvents
  /\ nticks = 0
  /\ outcome = [t \in Threads |-> "none"]
  /\ start = Snapshot(board, active_piece, GAME_STATE)

NextHardDrop ==
  \/ MainLoop
  \/ \E t \in Threads :
       \/ MoveLockPiece(t)
       \/ MoveLockBoard(t)
       \/ MoveCheck(t)
       \/ SettleLockPiece(t)
       \/ SettleLockBoard(t)
       \/ SettleBody(t)
       \/ CreateLockPiece(t)
       \/ CreateLockBoard(t)
       \/ CreateCheck(t)
       \/ RenderLockBoard(t)
       \/ RenderLockPiece(t)
       \/ RenderDraw(t)
       \/ game_over(t)

SpecHardDrop == InitHardDrop /\ [][NextHardDrop]_vars

\* ================================================================= claims
\* the places where a thread asks for a mutex
WantsBoard(t) ==
  pc[t] \in {"sng_lock", "cnap_lock_board", "rn_lock_board", "mv_lock_board",
             "rt_lock_board", "st_lock_board"}
WantsPiece(t) ==
  pc[t] \in {"cnap_lock_ap", "rn_lock_ap", "mv_lock_ap", "rt_lock_ap",
             "st_lock_ap"}

\* each of two threads holds one of the two mutexes and waits for the other
CircularWait ==
  \E t \in Threads, u \in Threads :
    /\ t # u
    /\ board_mutex = t /\ WantsPiece(t)
    /\ active_piece_mutex = u /\ WantsBoard(u)

\* C1: the gravity thread and the input thread never deadlock on
\* board_mutex and active_piece_mutex: in no reachable state does each
\* thread hold one of the two mutexes while waiting for the other.
C1_NoDeadlock == ~CircularWait

\* C2: each active piece is settled at most once: the piece a
\* settle_active_piece writes into the grid is the piece its
\* move_active_piece(DOWN) found blocked, never the replacement spawned by
\* the other thread's settle of that same piece.
C2_SettlesPieceFoundBlocked ==
  \A t \in Threads : pc[t] = "st_body" => seen[t].gen = gen

\* C3: settling and moving never race: when settle_active_piece writes the
\* piece its move_active_piece(DOWN) found blocked, the 4 coordinates are
\* the ones the piece had at that check, and so the floor or a settled cell
\* is directly below one of its cells.
C3_SettleWritesBlockedCoordinates ==
  \A t \in Threads :
    (pc[t] = "st_body" /\ seen[t].gen = gen) =>
      /\ active_piece.blocks = seen[t].blocks
      /\ MoveRejected(board, active_piece, "DOWN")

AboveBoard(p) == \E i \in 1 .. 4 : p.blocks[i].y < 0

\* C4: settling a piece one of whose 4 cells has y < 0 goes to game_over()
\* and writes none of the piece's cells: the grid after settle_active_piece
\* equals the grid before it.
C4_AboveBoardSettleLeavesGrid ==
  [][\A t \in Threads :
       (pc[t] = "st_body" /\ pc'[t] # "st_body" /\ AboveBoard(active_piece)) =>
         /\ board' = board
         /\ Head(stack'[t]) = "game_over"]_vars

\* the grid with the 4 cells of the piece written into it
PostWrite(b, p) ==
  [x \in Cols |-> [y \in Rows |-> IF Covers(p, x, y) THEN p.color ELSE b[x][y]]]

FullRows(g) == {y \in Rows : \A x \in Cols : g[x][y] # "TB_BLACK"}

\* the j-th row from the top among the rows that are not full
KeptRow(g, j) ==
  CHOOSE r \in Rows \ FullRows(g) :
    Cardinality({q \in Rows \ FullRows(g) : q < r}) = j - 1

\* the reference compaction: the full rows deleted, the other rows in their
\* order at the bottom, as many empty rows at the top as rows were deleted
Compacted(g) ==
  LET k == Cardinality(FullRows(g))
  IN  [x \in Cols |-> [y \in Rows |->
         IF y < k THEN "TB_BLACK" ELSE g[x][KeptRow(g, y - k + 1)]]]

\* C5: line-clear compaction matches the reference operator: the grid a
\* settle leaves is the grid with the piece written into it, its full rows
\* deleted, the rows above them moved down and the topmost rows empty.
C5_CompactionMatchesReference ==
  [][\A t \in Threads :
       (pc[t] = "st_body" /\ pc'[t] # "st_body" /\ ~AboveBoard(active_piece)) =>
         board' = Compacted(PostWrite(board, active_piece))]_vars

\* C6: QUIT is terminal: once GAME_STATE is QUIT no later step of either
\* thread changes it.
C6_QuitIsTerminal == [][GAME_STATE = "QUIT" => GAME_STATE' = "QUIT"]_vars

\* C7: from PLAY, PAUSE and GAME_OVER a quit key (Esc, Ctrl-C) handled by
\* the input thread sets GAME_STATE to QUIT: its dispatch leads to the
\* assignment GAME_STATE = QUIT.
C7_QuitKeyQuits ==
  [][(/\ pc["input"] = "ev_dispatch"
      /\ pc'["input"] # "ev_dispatch"
      /\ event = "ESC"
      /\ GAME_STATE \in {"PLAY", "PAUSE", "GAME_OVER"}) =>
       pc'["input"] = "ev_quit"]_vars

LegalTransitions ==
  {<<"PAUSE", "PLAY">>, <<"PLAY", "PAUSE">>, <<"PLAY", "GAME_OVER">>,
   <<"GAME_OVER", "PLAY">>}
  \cup {<<s, "QUIT">> : s \in {"PLAY", "PAUSE", "GAME_OVER"}}

\* C8: every change of GAME_STATE is PAUSE->PLAY, PLAY->PAUSE,
\* PLAY->GAME_OVER, GAME_OVER->PLAY or X->QUIT.
C8_LegalTransitionsOnly ==
  [][GAME_STATE' # GAME_STATE =>
       <<GAME_STATE, GAME_STATE'>> \in LegalTransitions]_vars

\* a step of the main thread inside its loop's move_active_piece(DOWN)
\* (the move, its settle, the spawn after it) that changes piece or grid
GravityChange ==
  /\ pc'["main"] # pc["main"]
  /\ pc["main"] \in {"mv_check", "st_body", "cnap_lock_ap"}
  /\ stack["main"] = <<"main_loop">>
  /\ (board' # board \/ active_piece' # active_piece)

\* C9: while GAME_STATE is PAUSE or GAME_OVER the gravity loop changes
\* neither the active piece nor the grid.
C9_NoGravityWhilePaused ==
  [][GravityChange => GAME_STATE \notin {"PAUSE", "GAME_OVER"}]_vars

\* C10: in every reachable state each of the active piece's 4 cells has
\* 0 <= x < BOARD_WIDTH and y < BOARD_HEIGHT.
C10_PieceInBounds ==
  \A i \in 1 .. 4 :
    /\ active_piece.blocks[i].x >= 0
    /\ active_piece.blocks[i].x < BOARD_WIDTH
    /\ active_piece.blocks[i].y < BOARD_HEIGHT

\* a spawned piece that has been moved to the right wall and down to the
\* floor, with a cell above the board after a rotation
C10_Witness ==
  /\ gen > 0
  /\ \E i \in 1 .. 4 : active_piece.blocks[i].x = BOARD_WIDTH - 1
  /\ \E i \in 1 .. 4 : active_piece.blocks[i].y = BOARD_HEIGHT - 1
  /\ active_piece.blocks[1].y > 0
  /\ active_piece.blocks[1].x # 4

\* a cell a piece may not enter: beyond a wall, below the floor, or a settled
\* cell of the board
CellBlocked(b, c) ==
  \/ c.x < 0
  \/ c.x >= BOARD_WIDTH
  \/ c.y >= BOARD_HEIGHT
  \/ (c.y >= 0 /\ b[c.x][c.y] # "TB_BLACK")

\* thread t is at the check of a LEFT or RIGHT move that has to be rejected
SideMoveBlocked(t) ==
  /\ pc[t] = "mv_check"
  /\ d[t] \in {"LEFT", "RIGHT"}
  /\ \E i \in 1 .. 4 :
       CellBlocked(board, B(active_piece.blocks[i].x + (IF d[t] = "LEFT" THEN -1 ELSE 1),
                            active_piece.blocks[i].y))

\* thread t is at the check of a rotation that has to be rejected
RotateBlocked(t) ==
  /\ pc[t] = "rt_check"
  /\ \E i \in 1 .. 3 : CellBlocked(board, RotateTargets(active_piece)[i])

\* C11: a blocked player action changes nothing: when a LEFT or RIGHT move
\* or a rotation is rejected (wall, floor, settled cell), the 4 blocks and
\* the colour of the active piece, every grid cell and GAME_STATE stay as
\* they are, and the call returns to its caller with the piece still active
\* (no settle).
C11_BlockedActionChangesNothing ==
  [][\A t \in Threads :
       (pc'[t] # pc[t] /\ (SideMoveBlocked(t) \/ RotateBlocked(t))) =>
         /\ active_piece' = active_piece
         /\ board' = board
         /\ GAME_STATE' = GAME_STATE
         /\ pc'[t] = Head(stack[t])
         /\ stack'[t] = Tail(stack[t])
         /\ outcome'[t] \in {"blocked", "unrotated"}]_vars

\* the input thread is back from a rotation of a spawned piece that was
\* rejected during play
C11_Witness ==
  /\ outcome["input"] = "unrotated"
  /\ pc["input"] = "ev_loop"
  /\ active_piece.color \notin {"TB_DEFAULT", "TB_RED"}
  /\ board # ZeroBoard

\* the caller of the rotations has n calls behind it
RotationsDone(n) ==
  IF n = RotateCalls THEN pc["input"] = "done"
  ELSE pc["input"] = "rt_lock_ap" /\ Len(stack["input"]) = RotateCalls - n

RECURSIVE RotatedTimes(_, _)
RotatedTimes(p, n) == IF n = 0 THEN p ELSE RotatedTimes(RotatedPiece(p), n - 1)

\* none of the first n rotations of the piece the behaviour began with is
\* rejected
Unobstructed(n) ==
  \A j \in 0 .. (n - 1) :
    ~RotateRejected(start.board, RotatedTimes(start.active_piece, j))

\* C12: rotation is periodic per shape: the O piece never changes, whatever
\* the grid; an unobstructed I piece is back at its 4 coordinates after two
\* consecutive calls; an unobstructed L, J, S, Z or T piece is back after
\* four; block 0 never moves.
C12_RotationPeriodic ==
  /\ active_piece.blocks[1] = start.active_piece.blocks[1]
  /\ active_piece.color = "TB_RED" => active_piece = start.active_piece
  /\ (active_piece.color = "TB_CYAN" /\ RotationsDone(2) /\ Unobstructed(2)) =>
       active_piece = start.active_piece
  /\ (active_piece.color \notin {"TB_CYAN", "TB_RED"} /\ RotationsDone(4)
        /\ Unobstructed(4)) =>
       active_piece = start.active_piece

\* four accepted rotations of a T piece are behind the caller, with a settled
\* cell on the grid
C12_Witness ==
  /\ RotationsDone(4)
  /\ Unobstructed(4)
  /\ active_piece.color = "TB_WHITE"
  /\ outcome["input"] = "rotated"
  /\ board # BlackBoard

\* neither thread is inside a move, rotate, settle, spawn or render
AtRest ==
  /\ pc["main"] = "main_loop"
  /\ stack["main"] = <<>>
  /\ pc["input"] \in {"ev_loop", "ev_poll", "ev_dispatch"}
  /\ stack["input"] = <<>>

Templates == {BLOCK_TYPE_NAMES[i] : i \in 1 .. 7}

\* a cell of piece p is a non-empty cell of grid b
OnSettledCell(b, p) ==
  \E i \in 1 .. 4 : b[p.blocks[i].x][p.blocks[i].y] # "TB_BLACK"

\* C14: create_new_active_piece goes on to game_over() (which sets
\* GAME_STATE to GAME_OVER) if and only if a cell of the chosen template at
\* its spawn position is a non-empty grid cell; it leaves GAME_STATE alone
\* itself, and the template is the active piece at its spawn coordinates
\* when the locks are released.
C14_GameOverIffSpawnCollides ==
  [][\A t \in Threads :
      /\ (pc'[t] # pc[t] /\ pc[t] \in {"cnap_lock_ap", "cnap_lock_board",
             "cnap_check", "rn_lock_board", "rn_lock_ap", "rn_draw"}) =>
           GAME_STATE' = GAME_STATE
      /\ (pc[t] = "game_over" /\ pc'[t] # "game_over") =>
           GAME_STATE' = "GAME_OVER"
      /\ (pc[t] = "cnap_check" /\ pc'[t] # "cnap_check") =>
           /\ active_piece \in Templates
           /\ active_piece' = active_piece
           /\ pc'[t] = "rn_lock_board"
           /\ IF OnSettledCell(board, active_piece)
              THEN stack'[t] = <<"game_over">> \o stack[t]
              ELSE /\ stack'[t] = stack[t]
                   /\ \A i \in 1 .. Len(stack[t]) : stack[t][i] # "game_over"]_vars

\* a spawn has signalled game-over for a template whose last block alone
\* lies on a settled cell, and game_over() has run
C14_Witness ==
  /\ GAME_STATE = "GAME_OVER"
  /\ active_piece \in Templates
  /\ board[active_piece.blocks[4].x][active_piece.blocks[4].y] # "TB_BLACK"
  /\ \A i \in 1 .. 3 :
       board[active_piece.blocks[i].x][active_piece.blocks[i].y] = "TB_BLACK"
  /\ AtRest

\* thread t is in the create_new_active_piece that setup_new_game called:
\* setup_new_game's caller goes on with render(); resume_game()
InResetSpawn(t) ==
  /\ pc[t] \in {"cnap_lock_ap", "cnap_lock_board", "cnap_check"}
  /\ stack[t] # <<>>
  /\ Head(stack[t]) = "rn_lock_board"

\* C15: the spawn performed by a reset never triggers game-over: the
\* create_new_active_piece call of setup_new_game does not go on to
\* game_over(), whatever the template and whatever the other thread does.
C15_ResetSpawnNeverGameOver ==
  [][\A t \in Threads :
       (InResetSpawn(t) /\ pc[t] = "cnap_check" /\ pc'[t] # "cnap_check") =>
         stack'[t] = stack[t]]_vars

\* the caller of the drop has returned
DropDone == pc["input"] = "done" \/ pc["main"] = "done"

\* the rows p can fall through the free cells of b
FallDepth(b, p) ==
  CHOOSE k \in 0 .. (2 * BOARD_HEIGHT) :
    /\ \A j \in 1 .. k : \A i \in 1 .. 4 :
         ~CellBlocked(b, Translate(p, 0, j).blocks[i])
    /\ \E i \in 1 .. 4 : CellBlocked(b, Translate(p, 0, k + 1).blocks[i])

\* the state single DOWN moves end in, the new piece being template tpl:
\* the piece one row lower for every free row under it, then the settle of
\* the first blocked move
DropEnd(s, tpl) ==
  LET q == Translate(s.active_piece, 0, FallDepth(s.board, s.active_piece))
      r == SettleResult(s.board, q)
  IN  IF r.game_over
      THEN Snapshot(r.board, q, "GAME_OVER")
      ELSE Snapshot(r.board, tpl,
                    IF OnSettledCell(r.board, tpl) THEN "GAME_OVER"
                    ELSE s.GAME_STATE)

\* C16: without a step of the other thread, hard_drop_active_piece returns,
\* and it leaves the grid, the piece and GAME_STATE that single
\* move_active_piece(DOWN) calls up to the first one returning false leave
\* (for the same template drawn for the new piece); the gravity thread's
\* single calls, run the same way, leave that state too.
C16_HardDropIsRepeatedDown ==
  /\ <>DropDone
  /\ [](DropDone =>
          /\ Snapshot(board, active_piece, GAME_STATE) = DropEnd(start, active_piece)
          /\ (GAME_STATE = "PLAY" => active_piece \in Templates))

\* a hard drop that fell two rows or more and completed a row
C16_Witness ==
  /\ pc["input"] = "done"
  /\ FallDepth(start.board, start.active_piece) >= 2
  /\ GAME_STATE = "PLAY"
  /\ \E y \in Rows : \A x \in Cols :
       start.board[x][y] # "TB_BLACK" \/ Covers(Translate(start.active_piece, 0,
                              FallDepth(start.board, start.active_piece)), x, y)

\* exit() was called
Exited == \E t \in Threads : pc[t] = "exited"

\* a thread stands at a step the bounds of the model keep it from taking
OutOfBudget ==
  \/ \E t \in Threads : pc[t] = "cnap_lock_ap" /\ gen >= MaxSpawns
  \/ pc["main"] = "main_loop" /\ GAME_STATE = "PLAY" /\ nticks >= MaxTicks

\* C17: once GAME_STATE is QUIT (set by the quit key, or by quit() called
\* from sigint_handler in either thread at any of its steps), with both
\* threads scheduled fairly and events still arriving, the process
\* eventually exits.
C17_QuitLeadsToExit ==
  [](GAME_STATE = "QUIT" => <>(Exited \/ OutOfBudget))

\* the state setup_new_game and resume_game leave: an empty grid, a template
\* at its spawn coordinates, PLAY
NewGame(s) ==
  /\ s.board = BlackBoard
  /\ s.active_piece \in Templates
  /\ s.GAME_STATE = "PLAY"

SettledCells(b) == {c \in Cols \X Rows : b[c[1]][c[2]] # "TB_BLACK"}

\* the cells of p with p lowered until its lowest cell is in the bottom row
FloorCells(p) ==
  LET low == CHOOSE y \in Rows :
               /\ \E i \in 1 .. 4 : p.blocks[i].y = y
               /\ \A i \in 1 .. 4 : p.blocks[i].y <= y
  IN  {<<p.blocks[i].x, p.blocks[i].y + (BOARD_HEIGHT - 1 - low)>> : i \in 1 .. 4}

C19_PieceLockBeforeBoardLock ==
  \A t \in Threads : ~(board_mutex = t /\ WantsPiece(t))

\* the critical sections that read or write the grid, and the piece
UsesBoard(t) ==
  pc[t] \in {"sng_clear", "cnap_check", "rn_draw", "mv_check", "rt_check",
             "st_body"}

UsesPiece(t) ==
  pc[t] \in {"cnap_lock_board", "cnap_check", "rn_draw", "mv_lock_board",
             "mv_check", "rt_lock_board", "rt_check", "st_lock_board",
             "st_body"}

\* thread t takes a step
Steps(t) == pc'[t] # pc[t] \/ stack'[t] # stack[t]

\* C20: no thread observes a half-updated piece or grid: the grid is read
\* and written only by the holder of board_mutex, the piece only by the
\* holder of active_piece_mutex, and a critical section that changes one of
\* them applies its whole update before it unlocks: all 4 cells of a
\* settle (and its row removal), all the blocks of a move or a rotation.
C20_NoHalfUpdate ==
  [][/\ \A t \in Threads : UsesBoard(t) => board_mutex = t
     /\ \A t \in Threads : UsesPiece(t) => active_piece_mutex = t
     /\ board' # board =>
          \E t \in Threads : Steps(t) /\ board_mutex = t
     /\ active_piece' # active_piece =>
          \E t \in Threads :
            Steps(t) /\ (active_piece_mutex = t \/ pc[t] = "cnap_lock_ap")
     /\ \A t \in Threads :
          (pc[t] = "st_body" /\ Steps(t) /\ board' # board) =>
            \A i \in 1 .. 4 :
              /\ active_piece.blocks[i].y >= 0
              /\ \/ board'[active_piece.blocks[i].x][active_piece.blocks[i].y]
                      = active_piece.color
                 \/ RowFull(PostWrite(board, active_piece), active_piece.blocks[i].y)
     /\ \A t \in Threads :
          (pc[t] = "mv_check" /\ Steps(t) /\ active_piece' # active_piece) =>
            \A i \in 1 .. 4 : active_piece'.blocks[i] # active_piece.blocks[i]
     /\ \A t \in Threads :
          (pc[t] = "rt_check" /\ Steps(t) /\ active_piece' # active_piece) =>
            active_piece'.blocks = RotatedPiece(active_piece).blocks]_vars

\* thread t runs the unlock and destroy calls of quit()
Destroys(t) == pc[t] = "quit_destroy" /\ pc'[t] = "exited"

\* thread u holds one of the two mutexes or is blocked on one
HoldsOrWaits(u) ==
  \/ board_mutex = u
  \/ active_piece_mutex = u
  \/ (WantsBoard(u) /\ board_mutex # "free")
  \/ (WantsPiece(u) /\ active_piece_mutex # "free")

\* C21: quit() destroys the two mutexes only after the input thread has
\* terminated, when no other thread holds one or is blocked on one, and the
\* unlock before each destroy is applied to a mutex the caller holds; on
\* the quit-key path and on the SIGINT path.
C21_ShutdownOrdering ==
  [][\A t \in Threads : Destroys(t) =>
       /\ pc["input"] = "thread_exit"
       /\ \A u \in Threads \ {t} : ~HoldsOrWaits(u)
       /\ board_mutex = t
       /\ active_piece_mutex = t]_vars

InRange(x, y) == x \in Cols /\ y \in Rows

\* The index pairs at which each critical section evaluates board[x][y], in
\* the order the source evaluates its conditions (|| and && stop at the
\* first operand that decides them, each loop at its first return).

\* rotate_active_piece: the occupancy test comes first, guarded by y >= 0
\* alone, for the candidates up to the first one rejected
RotateAccesses(b, p) ==
  {RotateTargets(p)[i] : i \in {j \in 1 .. 3 :
      /\ RotateTargets(p)[j].y >= 0
      /\ \A k \in 1 .. (j - 1) : ~RotateBlockRejected(b, RotateTargets(p)[k])}}

\* move_active_piece: the wall or floor test comes first, then y >= 0, for
\* the blocks up to the first one rejected
MoveAccesses(b, p, dir) ==
  {MoveTarget(p.blocks[i], dir) : i \in {j \in 1 .. 4 :
      /\ LET n == MoveTarget(p.blocks[j], dir)
         IN  /\ n.y >= 0
             /\ ~(dir = "LEFT" /\ n.x < 0)
             /\ ~(dir = "RIGHT" /\ n.x >= BOARD_WIDTH)
             /\ ~(dir = "DOWN" /\ n.y >= BOARD_HEIGHT)
      /\ \A k \in 1 .. (j - 1) : ~MoveBlockRejected(b, p.blocks[k], dir)}}

\* create_new_active_piece: the 4 blocks of the piece, no test before
SpawnAccesses(p) == {p.blocks[i] : i \in 1 .. 4}

\* settle_active_piece: the blocks before the first one with y < 0
SettleAccesses(p) ==
  {p.blocks[i] : i \in {j \in 1 .. 4 : \A k \in 1 .. j : p.blocks[k].y >= 0}}

\* C22: every board[x][y] evaluated by move_active_piece,
\* rotate_active_piece, settle_active_piece and create_new_active_piece has
\* 0 <= x < BOARD_WIDTH and 0 <= y < BOARD_HEIGHT (render's loops run over
\* exactly these ranges).
C22_BoardIndexInRange ==
  \A t \in Threads :
    /\ pc[t] = "rt_check" =>
         \A c \in RotateAccesses(board, active_piece) : InRange(c.x, c.y)
    /\ pc[t] = "mv_check" =>
         \A c \in MoveAccesses(board, active_piece, d[t]) : InRange(c.x, c.y)
    /\ pc[t] = "cnap_check" =>
         \A c \in SpawnAccesses(active_piece) : InRange(c.x, c.y)
    /\ pc[t] = "st_body" =>
         \A c \in SettleAccesses(active_piece) : InRange(c.x, c.y)

\* C23: one hard_drop_active_piece moves and settles only the piece that
\* was active when it was called (the first one made), also when the
\* gravity thread's DOWN settles that piece in between: its loop does not
\* go on to lower or settle the piece spawned after it.
C23_HardDropSettlesOnePiece ==
  [][/\ (pc["input"] = "mv_check" /\ pc'["input"] # "mv_check") => gen = 1
     /\ (pc["input"] = "st_body" /\ pc'["input"] # "st_body") => gen = 1]_vars
====
